---- MODULE Spec2Model ----
(***************************************************************************)
(* Model of the client-side plumbing of the portfolio admin console:       *)
(*   - the Notification Queue (context/ToastContext.jsx) with the          *)
(*     auto-dismiss timers of components/UI/ToastContainer.jsx,            *)
(*   - the Session Cache (utils/helpers.js: getCached, setCached,          *)
(*     clearCached, cachedApiCall) and the pages that call it,             *)
(*   - the API Client (services/api.js): token resolution, demo mode,      *)
(*     response handling, login and logout.                                *)
(* Strings that the code inspects (JSON text, type/action labels) are      *)
(* sequences of one-character strings, so that JSON.stringify, JSON.parse, *)
(* toLowerCase and includes are computed and not assumed.                  *)
(***************************************************************************)
EXTENDS Integers, Sequences, FiniteSets, TLC

(***************************************************************************)
(* Bounds of the model                                                     *)
(***************************************************************************)
MaxToasts == 2
MaxGen == 1
MaxInflight == 1
MaxSaves == 1
MaxRequests == 1
MaxStatus == 599

(***************************************************************************)
(* JSON values.  A value is a tagged tuple; JNull is also what JavaScript  *)
(* code sees as null.                                                      *)
(***************************************************************************)
JNull == <<"null">>
JBool(b) == <<"bool", b>>
JNum(n) == <<"num", n>>
JStr(s) == <<"str", s>>
JArr(a) == <<"arr", a>>
JObj(o) == <<"obj", o>>

QUOTE == "\""
BACKSLASH == "\\"

Digits == <<"0", "1", "2", "3", "4", "5", "6", "7", "8", "9">>

RECURSIVE NatToText(_)
NatToText(n) ==
  IF n < 10 THEN <<Digits[n + 1]>>
  ELSE NatToText(n \div 10) \o <<Digits[(n % 10) + 1]>>

RECURSIVE QuoteChars(_)
QuoteChars(s) ==
  IF s = <<>> THEN <<>>
  ELSE (IF Head(s) \in {QUOTE, BACKSLASH} THEN <<BACKSLASH, Head(s)>> ELSE <<Head(s)>>)
       \o QuoteChars(Tail(s))

QuoteText(s) == <<QUOTE>> \o QuoteChars(s) \o <<QUOTE>>

RECURSIVE JsonStringify(_)
RECURSIVE StringifyElems(_)
RECURSIVE StringifyMembers(_)

JsonStringify(v) ==
  CASE v[1] = "null" -> <<"n", "u", "l", "l">>
    [] v[1] = "bool" -> IF v[2] THEN <<"t", "r", "u", "e">> ELSE <<"f", "a", "l", "s", "e">>
    [] v[1] = "num" -> NatToText(v[2])
    [] v[1] = "str" -> QuoteText(v[2])
    [] v[1] = "arr" -> <<"[">> \o StringifyElems(v[2]) \o <<"]">>
    [] v[1] = "obj" -> <<"{">> \o StringifyMembers(v[2]) \o <<"}">>

StringifyElems(a) ==
  IF a = <<>> THEN <<>>
  ELSE JsonStringify(Head(a))
       \o (IF Tail(a) = <<>> THEN <<>> ELSE <<",">> \o StringifyElems(Tail(a)))

StringifyMembers(o) ==
  IF o = <<>> THEN <<>>
  ELSE QuoteText(Head(o)[1]) \o <<":">> \o JsonStringify(Head(o)[2])
       \o (IF Tail(o) = <<>> THEN <<>> ELSE <<",">> \o StringifyMembers(Tail(o)))

(***************************************************************************)
(* JSON.parse as a recursive-descent parser over the text.  A parse result *)
(* is [ok, val, next]; ok = FALSE stands for the SyntaxError it throws.    *)
(***************************************************************************)
ParseFail == [ok |-> FALSE, val |-> JNull, next |-> 0]
ParseOk(v, n) == [ok |-> TRUE, val |-> v, next |-> n]

CharAt(s, i) == IF i >= 1 /\ i <= Len(s) THEN s[i] ELSE "EOF"

IsLit(s, i, w) == i + Len(w) - 1 <= Len(s) /\ SubSeq(s, i, i + Len(w) - 1) = w

IsDigit(c) == \E d \in 1..10 : Digits[d] = c
DigitVal(c) == (CHOOSE d \in 1..10 : Digits[d] = c) - 1

RECURSIVE ParseDigits(_, _, _)
ParseDigits(s, i, acc) ==
  IF IsDigit(CharAt(s, i)) THEN ParseDigits(s, i + 1, acc * 10 + DigitVal(s[i]))
  ELSE ParseOk(JNum(acc), i)

ParseNumber(s, i) ==
  IF CharAt(s, i) = "0" THEN ParseOk(JNum(0), i + 1)
  ELSE ParseDigits(s, i, 0)

\* i is the position after the opening quote
RECURSIVE ParseChars(_, _, _)
ParseChars(s, i, acc) ==
  LET c == CharAt(s, i) IN
  IF c = "EOF" THEN ParseFail
  ELSE IF c = QUOTE THEN ParseOk(JStr(acc), i + 1)
  ELSE IF c = BACKSLASH
       THEN IF CharAt(s, i + 1) \in {QUOTE, BACKSLASH}
            THEN ParseChars(s, i + 2, Append(acc, s[i + 1]))
            ELSE ParseFail
  ELSE ParseChars(s, i + 1, Append(acc, c))

RECURSIVE ParseValue(_, _)
RECURSIVE ParseElems(_, _, _)
RECURSIVE ParseMembers(_, _, _)

ParseValue(s, i) ==
  LET c == CharAt(s, i) IN
  IF IsLit(s, i, <<"n", "u", "l", "l">>) THEN ParseOk(JNull, i + 4)
  ELSE IF IsLit(s, i, <<"t", "r", "u", "e">>) THEN ParseOk(JBool(TRUE), i + 4)
  ELSE IF IsLit(s, i, <<"f", "a", "l", "s", "e">>) THEN ParseOk(JBool(FALSE), i + 5)
  ELSE IF IsDigit(c) THEN ParseNumber(s, i)
  ELSE IF c = QUOTE THEN ParseChars(s, i + 1, <<>>)
  ELSE IF c = "["
       THEN IF CharAt(s, i + 1) = "]" THEN ParseOk(JArr(<<>>), i + 2)
            ELSE ParseElems(s, i + 1, <<>>)
  ELSE IF c = "{"
       THEN IF CharAt(s, i + 1) = "}" THEN ParseOk(JObj(<<>>), i + 2)
            ELSE ParseMembers(s, i + 1, <<>>)
  ELSE ParseFail

\* i is the position of the next element
ParseElems(s, i, acc) ==
  LET r == ParseValue(s, i) IN
  IF ~r.ok THEN ParseFail
  ELSE IF CharAt(s, r.next) = "," THEN ParseElems(s, r.next + 1, Append(acc, r.val))
  ELSE IF CharAt(s, r.next) = "]" THEN ParseOk(JArr(Append(acc, r.val)), r.next + 1)
  ELSE ParseFail

\* i is the position of the next member's key
ParseMembers(s, i, acc) ==
  IF CharAt(s, i) # QUOTE THEN ParseFail
  ELSE
    LET k == ParseChars(s, i + 1, <<>>) IN
    IF ~k.ok \/ CharAt(s, k.next) # ":" THEN ParseFail
    ELSE
      LET r == ParseValue(s, k.next + 1) IN
      IF ~r.ok THEN ParseFail
      ELSE IF CharAt(s, r.next) = ","
           THEN ParseMembers(s, r.next + 1, Append(acc, <<k.val[2], r.val>>))
      ELSE IF CharAt(s, r.next) = "}"
           THEN ParseOk(JObj(Append(acc, <<k.val[2], r.val>>)), r.next + 1)
      ELSE ParseFail

\* JSON.parse(text): the whole text must be one value
JsonParse(s) ==
  LET r == ParseValue(s, 1) IN
  IF r.ok /\ r.next = Len(s) + 1 THEN r ELSE ParseFail

(***************************************************************************)
(* State                                                                   *)
(***************************************************************************)
VARIABLES
  sessionStorage,  \* tab-scoped storage: storage key -> stored text
  inflight,        \* cachedApiCall invocations suspended at `await apiFn()`
  pendingSaves,    \* handleSave invocations suspended at `await api...save()`
  saveVer,         \* per resource: number of saves the backend has applied
  cacheVer,        \* per resource: backend version of the cached payload
  clearedVer,      \* per resource: latest save whose clearCached was issued
  ev,              \* the cache operation performed last, with its result
  toasts,          \* ToastProvider state: the notification queue
  ref,             \* the queue according to the reference semantics
  timers,          \* per rendered ToastItem: delay of its armed timer, 0 if none
  containerMounted,\* ToastContainer is mounted
  isMobile,        \* ToastContainer state
  narrow,          \* window.innerWidth < 768
  nextId,          \* number of ids generated so far
  listening,       \* ToastProvider is mounted: its window listeners are registered
  tev,             \* the queue operation performed last, with its result
  localStorage,    \* persistent storage: storage key -> stored text
  requests,        \* API client calls suspended at `await fetch` or at the body read
  aev,             \* the API client operation performed last, with its result
  loggedOut,       \* logout() has run and no login has stored a token since
  isSaving,        \* per ExpandableSection of the knowledge base: state isSaving
  hasChanges       \* per ExpandableSection of the knowledge base: state hasChanges

toastVars == <<toasts, ref, timers, containerMounted, isMobile, narrow, nextId, listening, tev>>
cacheVars == <<sessionStorage, inflight, pendingSaves, saveVer, cacheVer, clearedVer, ev>>
authVars == <<localStorage, requests, aev, loggedOut>>
pageVars == <<isSaving, hasChanges>>
vars == <<cacheVars, toastVars, authVars, pageVars>>

(***************************************************************************)
(* Session cache (utils/helpers.js)                                        *)
(***************************************************************************)
\* Storage keys are sequences of string pieces, so that prefixing is
\* concatenation.
CACHE_PREFIX == <<"cache_">>

SYSTEM_INSTRUCTIONS == <<"system_instructions">>
KNOWLEDGE_BASE_ALL == <<"knowledge_base_all">>
CacheKeys == {SYSTEM_INSTRUCTIONS, KNOWLEDGE_BASE_ALL}

\* Storage.getItem: null for a missing key, the stored text otherwise
StorageGetItem(store, k) ==
  IF k \in DOMAIN store THEN [isNull |-> FALSE, text |-> store[k]]
  ELSE [isNull |-> TRUE, text |-> <<>>]

StorageSetItem(store, k, text) == (k :> text) @@ store

StorageRemoveItem(store, k) == [j \in DOMAIN store \ {k} |-> store[j]]

\* getCached that takes every falsy payload for a missing one
getCached_Truthy(store, key) ==
  LET cached == StorageGetItem(store, CACHE_PREFIX \o key) IN
  IF cached.isNull \/ cached.text = <<>> THEN JNull
  ELSE LET data == JsonParse(cached.text) IN
       IF data.ok /\ data.val \notin {JBool(FALSE), JNum(0), JStr(<<>>)} THEN data.val ELSE JNull

getCached(store, key) ==
  LET cached == StorageGetItem(store, CACHE_PREFIX \o key) IN
  IF cached.isNull \/ cached.text = <<>> THEN JNull
  ELSE LET data == JsonParse(cached.text) IN
       IF data.ok THEN data.val ELSE JNull

\* setCached that writes under the bare key
setCached_NoPrefix(store, key, data, quotaOk) ==
  IF quotaOk THEN StorageSetItem(store, key, JsonStringify(data))
  ELSE store

\* quotaOk = FALSE: setItem throws QuotaExceededError, which is caught
setCached(store, key, data, quotaOk) ==
  IF quotaOk THEN StorageSetItem(store, CACHE_PREFIX \o key, JsonStringify(data))
  ELSE store

\* clearCached that empties the storage
clearCached_All(store, key) == StorageRemoveItem(<<>>, CACHE_PREFIX \o key)

clearCached(store, key) == StorageRemoveItem(store, CACHE_PREFIX \o key)

\* String.prototype.startsWith on keys
StartsWith(key, prefix) ==
  Len(key) >= Len(prefix) /\ SubSeq(key, 1, Len(prefix)) = prefix

\* clearAllCached as sessionStorage.clear()
clearAllCached_Clear(store) == <<>>

\* clearAllCached(): removeItem for every key that starts with the prefix
clearAllCached(store) ==
  [j \in {k \in DOMAIN store : ~StartsWith(k, CACHE_PREFIX)} |-> store[j]]

\* cachedApiCall that never consults the cache
cachedApiCallBegin_NoLookup(store, cacheKey, forceRefresh) ==
  [invoke |-> TRUE, ret |-> JNull]

\* cachedApiCall up to its suspension: either a cache hit that returns, or
\* the invocation of apiFn
cachedApiCallBegin(store, cacheKey, forceRefresh) ==
  LET cached == IF forceRefresh THEN JNull ELSE getCached(store, cacheKey) IN
  IF ~forceRefresh /\ cached # JNull
  THEN [invoke |-> FALSE, ret |-> cached]
  ELSE [invoke |-> TRUE, ret |-> JNull]

\* cachedApiCall that catches the producer's failure and caches null
cachedApiCallResume_Swallow(store, cacheKey, outcome, quotaOk) ==
  IF outcome.kind = "reject"
  THEN [store |-> setCached(store, cacheKey, JNull, quotaOk),
        kind |-> "return", val |-> JNull, set |-> TRUE, stored |-> quotaOk]
  ELSE [store |-> setCached(store, cacheKey, outcome.val, quotaOk),
        kind |-> "return", val |-> outcome.val, set |-> TRUE, stored |-> quotaOk]

\* cachedApiCall over a setCached that lets the failure of the write out
cachedApiCallResume_Unguarded(store, cacheKey, outcome, quotaOk) ==
  IF outcome.kind = "reject"
  THEN [store |-> store, kind |-> "throw", val |-> outcome.val,
        set |-> FALSE, stored |-> FALSE]
  ELSE IF ~quotaOk
  THEN [store |-> store, kind |-> "throw", val |-> JStr(<<"QuotaExceededError">>),
        set |-> TRUE, stored |-> FALSE]
  ELSE [store |-> setCached(store, cacheKey, outcome.val, quotaOk),
        kind |-> "return", val |-> outcome.val, set |-> TRUE, stored |-> quotaOk]

\* cachedApiCall after `await apiFn()`: outcome is how the producer settled
\* (set: setCached was called; stored: its write went through)
cachedApiCallResume(store, cacheKey, outcome, quotaOk) ==
  IF outcome.kind = "reject"
  THEN [store |-> store, kind |-> "throw", val |-> outcome.val,
        set |-> FALSE, stored |-> FALSE]
  ELSE [store |-> setCached(store, cacheKey, outcome.val, quotaOk),
        kind |-> "return", val |-> outcome.val, set |-> TRUE, stored |-> quotaOk]

(***************************************************************************)
(* Values the model draws                                                  *)
(***************************************************************************)
CONTENT == JObj(<< <<<<"content">>, JStr(<<"a">>)>> >>)
ProducerVals == {JNull, JNum(0), CONTENT}
JsonVals ==
  {JNull, JBool(FALSE), JBool(TRUE), JNum(0), JNum(42), JStr(<<>>), JStr(<<"a", QUOTE>>),
   JStr(<<"n", "u", "l", "l">>), JArr(<<>>), JArr(<<JNull, JNum(1)>>), JObj(<<>>), CONTENT}
\* stored texts that JSON.parse rejects: what setItem stores for
\* JSON.stringify(undefined), and a truncated object
CorruptTexts == {<<"u", "n", "d", "e", "f", "i", "n", "e", "d">>, <<"{", QUOTE, "a">>}
ProducerErrors == {JStr(<<"HTTP 500">>), JStr(<<"Network error">>)}
Outcomes == [kind : {"resolve"}, val : ProducerVals] \cup [kind : {"reject"}, val : ProducerErrors]

\* after: the operation that came right before this one, when it was a set,
\* a clear or a completed cachedApiCall on the same key ("other" otherwise)
\* op: the operation; val: what it returned or threw (for set: what it was
\* given); ver: backend version of val; ok: the storage write went through;
\* settled, prod: how and with what the producer settled; set: setCached was
\* called
Event(op, key, force, val, ver, ok) ==
  [op |-> op, key |-> key, force |-> force, val |-> val, ver |-> ver, ok |-> ok,
   settled |-> "none", prod |-> JNull, set |-> FALSE, after |-> "other"]
NoEvent == Event("init", <<>>, FALSE, JNull, 0, TRUE)
Other(op) == Event(op, <<>>, FALSE, JNull, 0, TRUE)

RemoveAt(s, i) == SubSeq(s, 1, i - 1) \o SubSeq(s, i + 1, Len(s))

InitCache ==
  /\ sessionStorage = <<>>
  /\ inflight = <<>>
  /\ pendingSaves = <<>>
  /\ saveVer = [k \in CacheKeys |-> 0]
  /\ cacheVer = [k \in CacheKeys |-> 0]
  /\ clearedVer = [k \in CacheKeys |-> 0]
  /\ ev = NoEvent

Log(e) ==
  ev' = [e EXCEPT !.after = IF ev.key = e.key /\ ev.op \in {"set", "clear", "rtDone"}
                            THEN ev.op ELSE "other"]

(***************************************************************************)
(* Operations of the session cache and of the pages that use it            *)
(***************************************************************************)
SetCachedCall(k, data, quotaOk) ==
  /\ sessionStorage' = setCached(sessionStorage, k, data, quotaOk)
  /\ Log([Event("set", k, FALSE, data, 0, quotaOk) EXCEPT !.set = TRUE])
  /\ UNCHANGED <<inflight, pendingSaves, saveVer, cacheVer, clearedVer, toastVars, authVars, pageVars>>

GetCachedCall(k) ==
  /\ Log(Event("get", k, FALSE, getCached(sessionStorage, k), cacheVer[k], TRUE))
  /\ UNCHANGED <<sessionStorage, inflight, pendingSaves, saveVer, cacheVer, clearedVer, toastVars, authVars, pageVars>>

ClearCachedCall(k) ==
  /\ sessionStorage' = clearCached(sessionStorage, k)
  /\ Log(Event("clear", k, FALSE, getCached(sessionStorage, k), 0, TRUE))
  /\ UNCHANGED <<inflight, pendingSaves, saveVer, cacheVer, clearedVer, toastVars, authVars, pageVars>>

\* clearAllCached(); the event records how many keys it removed
ClearAllCachedCall ==
  /\ sessionStorage' = clearAllCached(sessionStorage)
  /\ Log(Event("clearAll", <<>>, FALSE, JNull,
               Cardinality(DOMAIN sessionStorage \ DOMAIN sessionStorage'), TRUE))
  /\ UNCHANGED <<inflight, pendingSaves, saveVer, cacheVer, clearedVer, toastVars, authVars, pageVars>>

\* the synchronous part of cachedApiCall(k, apiFn, force) on store
BeginCall(store, k, force) ==
  LET b == cachedApiCallBegin(store, k, force) IN
  /\ sessionStorage' = store
  /\ IF b.invoke
     THEN /\ Len(inflight) < MaxInflight
          /\ inflight' = Append(inflight, [key |-> k, force |-> force, ver |-> -1])
          /\ Log(Event("rtMiss", k, force, JNull, 0, TRUE))
     ELSE /\ inflight' = inflight
          /\ Log(Event("rtHit", k, force, b.ret, cacheVer[k], TRUE))
  /\ UNCHANGED <<pendingSaves, saveVer, cacheVer, clearedVer, toastVars, authVars, pageVars>>

CachedApiCall(k, force) == BeginCall(sessionStorage, k, force)

\* loadInstructions / loadAllCategories up to the await
LoadPage(k, forceRefresh) ==
  BeginCall(IF forceRefresh THEN clearCached(sessionStorage, k) ELSE sessionStorage,
            k, forceRefresh)

\* the backend serves the GET issued by apiFn: the payload is the resource
\* as of the saves applied so far
BackendRead(i) ==
  /\ inflight[i].ver = -1
  /\ inflight' = [inflight EXCEPT ![i].ver = saveVer[inflight[i].key]]
  /\ Log(Other("read"))
  /\ UNCHANGED <<sessionStorage, pendingSaves, saveVer, cacheVer, clearedVer, toastVars, authVars, pageVars>>

\* apiFn settles and cachedApiCall resumes
SettleCall(i, outcome, quotaOk) ==
  LET c == inflight[i]
      r == cachedApiCallResume(sessionStorage, c.key, outcome, quotaOk) IN
  /\ outcome.kind = "resolve" => c.ver # -1
  /\ sessionStorage' = r.store
  /\ inflight' = RemoveAt(inflight, i)
  /\ cacheVer' = IF r.stored THEN [cacheVer EXCEPT ![c.key] = c.ver] ELSE cacheVer
  /\ Log([Event(IF r.kind = "return" THEN "rtDone" ELSE "rtThrow", c.key, c.force, r.val,
                IF r.kind = "return" THEN c.ver ELSE 0, r.stored)
            EXCEPT !.settled = outcome.kind, !.prod = outcome.val, !.set = r.set])
  /\ UNCHANGED <<pendingSaves, saveVer, clearedVer, toastVars, authVars, pageVars>>

\* handleSave / handleSaveSection: the save request reaches the backend
SaveApply(k) ==
  /\ saveVer[SYSTEM_INSTRUCTIONS] + saveVer[KNOWLEDGE_BASE_ALL] < MaxSaves
  /\ saveVer' = [saveVer EXCEPT ![k] = @ + 1]
  /\ pendingSaves' = Append(pendingSaves, [key |-> k, ver |-> saveVer[k] + 1])
  /\ Log(Other("save"))
  /\ UNCHANGED <<sessionStorage, inflight, cacheVer, clearedVer, toastVars, authVars, pageVars>>

\* the save resolves: clearCached(k) in the try block
SaveDone(i) ==
  LET s == pendingSaves[i] IN
  /\ sessionStorage' = clearCached(sessionStorage, s.key)
  /\ pendingSaves' = RemoveAt(pendingSaves, i)
  /\ clearedVer' = [clearedVer EXCEPT ![s.key] = IF s.ver > @ THEN s.ver ELSE @]
  /\ Log(Event("saved", s.key, FALSE, JNull, 0, TRUE))
  /\ UNCHANGED <<inflight, saveVer, cacheVer, toastVars, authVars, pageVars>>

\* the save rejects: the catch block leaves the cache alone
SaveFail(i) ==
  LET s == pendingSaves[i] IN
  /\ pendingSaves' = RemoveAt(pendingSaves, i)
  /\ Log(Other("saveFailed"))
  /\ UNCHANGED <<sessionStorage, inflight, saveVer, cacheVer, clearedVer, toastVars, authVars, pageVars>>

(***************************************************************************)
(* Notification queue (context/ToastContext.jsx)                           *)
(***************************************************************************)
\* Texts the code searches are sequences of characters
UPLOAD == <<"u", "p", "l", "o", "a", "d">>
UPLOADING == <<"u", "p", "l", "o", "a", "d", "i", "n", "g">>
ARCHIVE == <<"a", "r", "c", "h", "i", "v", "e">>
ARCHIVING == <<"a", "r", "c", "h", "i", "v", "i", "n", "g">>
RESTORE == <<"r", "e", "s", "t", "o", "r", "e">>
RESTORING == <<"r", "e", "s", "t", "o", "r", "i", "n", "g">>
DELETE == <<"d", "e", "l", "e", "t", "e">>
DELETING == <<"d", "e", "l", "e", "t", "i", "n", "g">>
ActionDeleting == <<"D", "e", "l", "e", "t", "i", "n", "g">>

UpperCase == <<"A", "B", "C", "D", "E", "F", "G", "H", "I", "J", "K", "L", "M",
               "N", "O", "P", "Q", "R", "S", "T", "U", "V", "W", "X", "Y", "Z">>
LowerCase == <<"a", "b", "c", "d", "e", "f", "g", "h", "i", "j", "k", "l", "m",
               "n", "o", "p", "q", "r", "s", "t", "u", "v", "w", "x", "y", "z">>

\* String.prototype.toLowerCase
ToLowerCase(s) ==
  [i \in 1..Len(s) |->
     IF \E n \in 1..26 : UpperCase[n] = s[i]
     THEN LowerCase[CHOOSE n \in 1..26 : UpperCase[n] = s[i]]
     ELSE s[i]]

\* String.prototype.includes
Includes(s, w) == \E i \in 1..(Len(s) - Len(w) + 1) : SubSeq(s, i, i + Len(w) - 1) = w

NULL == "null"

Has(o, f) == f \in DOMAIN o

\* Date.now().toString() + Math.random().toString(36).substr(2, 9): the
\* n-th generated id, distinct from the ones generated before
GeneratedId(n) == <<"gen", n>>

\* the object literal of addToast: every default, then the spread of toast
NewToast(toast, id) ==
  toast @@
  [id |-> id,
   status |-> IF Has(toast, "status") /\ toast.status # "" THEN toast.status ELSE "pending",
   progress |-> IF Has(toast, "progress") /\ toast.progress # 0 THEN toast.progress ELSE 0,
   title |-> IF Has(toast, "title") /\ toast.title # "" THEN toast.title ELSE "",
   message |-> IF Has(toast, "message") /\ toast.message # "" THEN toast.message ELSE "",
   fileName |-> IF Has(toast, "fileName") /\ toast.fileName # "" THEN toast.fileName ELSE "",
   action |-> IF Has(toast, "action") /\ toast.action # <<>> THEN toast.action ELSE <<>>,
   type |-> IF Has(toast, "type") /\ toast.type # <<>> THEN toast.type ELSE <<>>,
   bulkProgress |-> IF Has(toast, "bulkProgress") /\ toast.bulkProgress # NULL
                    THEN toast.bulkProgress ELSE NULL]

\* addToast that broadcasts for an entry created complete
addToast_Dispatching(prev, toast, generated) ==
  LET id == IF Has(toast, "id") /\ toast.id # <<>> THEN toast.id ELSE generated IN
  [toasts |-> Append(prev, NewToast(toast, id)), id |-> id,
   usedGenerated |-> ~(Has(toast, "id") /\ toast.id # <<>>),
   dispatched |-> IF NewToast(toast, id).status = "complete" THEN <<"upload">> ELSE <<>>]

\* addToast(toast); generated is the id that the id expression generates
addToast(prev, toast, generated) ==
  LET id == IF Has(toast, "id") /\ toast.id # <<>> THEN toast.id ELSE generated IN
  [toasts |-> Append(prev, NewToast(toast, id)), id |-> id,
   usedGenerated |-> ~(Has(toast, "id") /\ toast.id # <<>>),
   dispatched |-> <<>>]

\* the data-changed events that updateToast dispatches for one entry
DataChanged(toast, updates) ==
  IF Has(updates, "status") /\ updates.status = "complete" /\ toast.status # "complete"
  THEN LET eventType == IF toast.type # <<>> THEN toast.type ELSE ToLowerCase(toast.action) IN
       IF Includes(eventType, UPLOAD) \/ Includes(eventType, UPLOADING) THEN <<"upload">>
       ELSE IF Includes(eventType, ARCHIVE) \/ Includes(eventType, ARCHIVING) THEN <<"archive">>
       ELSE IF Includes(eventType, RESTORE) \/ Includes(eventType, RESTORING) THEN <<"restore">>
       ELSE IF Includes(eventType, DELETE) \/ Includes(eventType, DELETING) THEN <<"delete">>
       ELSE <<>>
  ELSE <<>>

RECURSIVE Dispatched(_, _, _)
Dispatched(prev, id, updates) ==
  IF prev = <<>> THEN <<>>
  ELSE (IF Head(prev).id = id THEN DataChanged(Head(prev), updates) ELSE <<>>)
       \o Dispatched(Tail(prev), id, updates)

\* updateToast that spreads the entry over the updates
updateToast_EntryWins(prev, id, updates) ==
  [toasts |-> [i \in 1..Len(prev) |->
                 IF prev[i].id = id THEN prev[i] @@ updates ELSE prev[i]],
   dispatched |-> Dispatched(prev, id, updates)]

\* updateToast(id, updates): the mapped queue and the events dispatched
updateToast(prev, id, updates) ==
  [toasts |-> [i \in 1..Len(prev) |->
                 IF prev[i].id = id THEN updates @@ prev[i] ELSE prev[i]],
   dispatched |-> Dispatched(prev, id, updates)]

removeToast(prev, id) == SelectSeq(prev, LAMBDA toast : toast.id # id)

\* showSuccess(message) and showError(message)
showSuccess(prev, message, generated) ==
  addToast(prev, [message |-> message, status |-> "complete"], generated)

showError(prev, message, generated) ==
  addToast(prev, [message |-> message, status |-> "error"], generated)

\* handleAddToast, the listener of add-toast: addToast(e.detail)
handleAddToast(prev, detail, generated) == addToast(prev, detail, generated)

\* a listener of update-toast that reads the updates from e.detail.updates,
\* which the flat payload does not have
handleUpdateToast_Nested(prev, detail) == updateToast(prev, detail.id, <<>>)

\* handleUpdateToast, the listener of update-toast:
\* updateToast(e.detail.id, e.detail)
handleUpdateToast(prev, detail) == updateToast(prev, detail.id, detail)

\* DashboardPage's listener of data-changed: the number of times it calls
\* fetchDashboardData for the events of one operation
handleDataChange(dispatched) == Len(dispatched)

(***************************************************************************)
(* Auto-dismiss timers (components/UI/ToastContainer.jsx)                  *)
(***************************************************************************)
MobileDelay == 2000
DesktopDelay == 5000

IsTerminal(toast) == toast.status = "complete" \/ toast.status = "error"

\* the effect that arms a timer for complete entries only
ToastItemEffect_CompleteOnly(toast, mobile) ==
  IF toast.status = "complete"
  THEN (IF mobile THEN MobileDelay ELSE DesktopDelay)
  ELSE 0

\* the effect of ToastItem: the delay of the timer it arms, 0 when it arms none
ToastItemEffect(toast, mobile) ==
  IF toast.status = "complete" \/ toast.status = "error"
  THEN (IF mobile THEN MobileDelay ELSE DesktopDelay)
  ELSE 0

\* the dependency array of the effect (onClose is the stable removeToast)
EffectDeps(toast, mobile) ==
  <<toast.status = "complete", toast.status = "error", toast.id, mobile>>

\* a ToastItem renders again: the effect is cleaned up and run again only
\* when a dependency changed
Rerender(oldToast, oldMobile, oldTimer, newToast, newMobile) ==
  IF EffectDeps(oldToast, oldMobile) = EffectDeps(newToast, newMobile)
  THEN oldTimer
  ELSE ToastItemEffect(newToast, newMobile)

\* timers after a commit that keeps every item: same positions
RerenderAll(oldToasts, oldMobile, oldTimers, newToasts, newMobile, mounted) ==
  [i \in 1..Len(newToasts) |->
     IF ~mounted THEN 0
     ELSE Rerender(oldToasts[i], oldMobile, oldTimers[i], newToasts[i], newMobile)]

\* timers after a commit that drops the items with this id: their timers are
\* cleared by the effect cleanup, the others are untouched
RECURSIVE DropTimers(_, _, _)
DropTimers(oldToasts, oldTimers, id) ==
  IF oldToasts = <<>> THEN <<>>
  ELSE (IF Head(oldToasts).id = id THEN <<>> ELSE <<Head(oldTimers)>>)
       \o DropTimers(Tail(oldToasts), Tail(oldTimers), id)

(***************************************************************************)
(* Reference semantics of the queue: operations applied left to right      *)
(***************************************************************************)
RefMerge(entry, updates) ==
  [f \in DOMAIN entry \cup DOMAIN updates |->
     IF f \in DOMAIN updates THEN updates[f] ELSE entry[f]]

RECURSIVE RefUpdate(_, _, _)
RefUpdate(q, id, updates) ==
  IF q = <<>> THEN <<>>
  ELSE <<IF Head(q).id = id THEN RefMerge(Head(q), updates) ELSE Head(q)>>
       \o RefUpdate(Tail(q), id, updates)

RECURSIVE RefRemove(_, _)
RefRemove(q, id) ==
  IF q = <<>> THEN <<>>
  ELSE (IF Head(q).id = id THEN <<>> ELSE <<Head(q)>>) \o RefRemove(Tail(q), id)

RefAdd(q, entry) == q \o <<entry>>

(***************************************************************************)
(* Inputs of the queue operations                                          *)
(***************************************************************************)
OwnId == <<"a">>
ScenarioA_Add == [title |-> "Upload", status |-> "pending"]
ScenarioA_Update == [status |-> "complete", type |-> UPLOAD]

AddInputs ==
  {ScenarioA_Add,
   [id |-> OwnId],
   [id |-> OwnId, status |-> "complete", type |-> UPLOAD],
   [action |-> ActionDeleting]}

UpdateInputs ==
  {ScenarioA_Update,
   [status |-> "error"],
   [id |-> OwnId]}

\* inputs that only set what the timers depend on
StatusInputs == {[status |-> "pending"], [status |-> "complete"], [status |-> "error"]}
TimerAddInputs == StatusInputs \cup {[id |-> OwnId, status |-> "complete"]}

AllIds == {OwnId} \cup {GeneratedId(n) : n \in 1..(MaxGen + 1)}

\* inputs of the provider: also an entry whose id is the empty string
EMPTY_ID == <<>>
ProviderAddInputs ==
  {[id |-> EMPTY_ID, title |-> "Upload"],
   [id |-> OwnId, status |-> "complete", type |-> UPLOAD]}
ProviderUpdateInputs == {ScenarioA_Update, [status |-> "error"]}
SuccessMessages == {"Contacts saved successfully"}
ErrorMessages == {"Failed to save contacts"}

\* an update-toast payload {id, ...updates}
Payload(id, updates) == [id |-> id] @@ updates
\* the updates of a payload
Updates(detail) == [f \in DOMAIN detail \ {"id"} |-> detail[f]]

ToastEvent(op, id, arg, ret, dispatched) ==
  [op |-> op, id |-> id, arg |-> arg, ret |-> ret, dispatched |-> dispatched]

(***************************************************************************)
(* API client (services/api.js)                                            *)
(***************************************************************************)
\* a member of an object literal
Member(name, v) == <<<<name>>, v>>

\* what JavaScript code sees as undefined
JUndefined == <<"undefined">>

\* obj[name] on a parsed JSON value: the member of an object, undefined on
\* any other value (on null the access throws; callers test for it first)
RECURSIVE Lookup(_, _)
Lookup(o, name) ==
  IF o = <<>> THEN JUndefined
  ELSE IF Head(o)[1] = name THEN Head(o)[2]
  ELSE Lookup(Tail(o), name)

GetProp(v, name) == IF v[1] = "obj" THEN Lookup(v[2], name) ELSE JUndefined

\* ToBoolean
Truthy(v) == v \notin {JUndefined, JNull, JBool(FALSE), JNum(0), JStr(<<>>)}

\* ToString
ToStringJs(v) ==
  CASE v[1] = "str" -> v[2]
    [] v[1] = "num" -> NatToText(v[2])
    [] v[1] = "bool" -> IF v[2] THEN <<"true">> ELSE <<"false">>
    [] v[1] = "null" -> <<"null">>
    [] v[1] = "undefined" -> <<"undefined">>
    [] v[1] = "arr" -> <<"[array]">>
    [] v[1] = "obj" -> <<"[object Object]">>

ApiError(message, status, data) ==
  [name |-> "ApiError", message |-> message, status |-> status, data |-> data]

\* an error that is not an ApiError: a DOMException of the storage, a
\* SyntaxError of the body parser, a TypeError of fetch or of a property read
RawError(name, message) == [name |-> name, message |-> message]
NoError == [name |-> "none", message |-> <<>>]

isAuthError(e) == e.status = 401 \/ e.status = 403
\* isServerError that takes every error status for a server error
isServerError_From400(e) == e.status >= 400
isServerError(e) == e.status >= 500
isNetworkError(e) == e.status = 0

TOKEN_STORAGE_KEY == <<"admin_token">>
USER_INFO_KEY == <<"admin_user_info">>
ADMIN_SESSION_KEY == <<"admin_session">>
DEMO_TOKEN == <<"TEST_TOKEN_DEMO_MODE">>

\* sessionStorage.getItem(k) || localStorage.getItem(k)
getToken(session, local) ==
  LET s == StorageGetItem(session, TOKEN_STORAGE_KEY) IN
  IF ~s.isNull /\ s.text # <<>> THEN s ELSE StorageGetItem(local, TOKEN_STORAGE_KEY)

isLoggedIn(session, local) ==
  LET token == getToken(session, local) IN ~token.isNull /\ token.text # <<>>

\* isDemoMode that looks in the tab-scoped storage only
isDemoMode_SessionOnly(session, local) ==
  LET token == StorageGetItem(session, TOKEN_STORAGE_KEY) IN
  ~token.isNull /\ token.text = DEMO_TOKEN

isDemoMode(session, local) ==
  LET token == getToken(session, local) IN ~token.isNull /\ token.text = DEMO_TOKEN

\* newToken: the X-New-Token header, <<>> when the response has none;
\* quotaOk = FALSE: setItem throws
handleTokenRefresh(session, newToken, quotaOk) ==
  IF newToken # <<>>
  THEN IF quotaOk
       THEN [store |-> StorageSetItem(session, TOKEN_STORAGE_KEY, newToken), threw |-> FALSE]
       ELSE [store |-> session, threw |-> TRUE]
  ELSE [store |-> session, threw |-> FALSE]

ResponseOk(status) == status >= 200 /\ status <= 299

\* handleResponse that tears the session down on 403 as well
handleResponseBegin_Every4xx(session, status, newToken, quotaOk) ==
  LET r == handleTokenRefresh(session, newToken, quotaOk) IN
  IF r.threw THEN [store |-> session, threw |-> TRUE, expired |-> FALSE]
  ELSE IF ~ResponseOk(status) /\ status \in {401, 403}
  THEN [store |-> StorageRemoveItem(StorageRemoveItem(r.store, TOKEN_STORAGE_KEY),
                                    USER_INFO_KEY),
        threw |-> FALSE, expired |-> TRUE]
  ELSE [store |-> r.store, threw |-> FALSE, expired |-> FALSE]

\* handleResponse up to its suspension at response.json(); threw: setItem
\* threw and the call is over; expired: auth:expired was dispatched
handleResponseBegin(session, status, newToken, quotaOk) ==
  LET r == handleTokenRefresh(session, newToken, quotaOk) IN
  IF r.threw THEN [store |-> session, threw |-> TRUE, expired |-> FALSE]
  ELSE IF ~ResponseOk(status) /\ status = 401
  THEN [store |-> StorageRemoveItem(StorageRemoveItem(r.store, TOKEN_STORAGE_KEY),
                                    USER_INFO_KEY),
        threw |-> FALSE, expired |-> TRUE]
  ELSE [store |-> r.store, threw |-> FALSE, expired |-> FALSE]

Resolve(v) == [kind |-> "resolve", val |-> v, error |-> NoError]
Reject(e) == [kind |-> "reject", val |-> JUndefined, error |-> e]

HttpMessage(status) == <<"HTTP ">> \o NatToText(status)

\* handleResponse after response.json() settled; parsed is what it settled
\* with: [ok, val], ok = FALSE for a rejection
handleResponseEnd(status, parsed) ==
  IF ~ResponseOk(status)
  THEN LET errorData == IF parsed.ok THEN parsed.val ELSE JObj(<<>>) IN
       IF errorData = JNull
       THEN Reject(RawError("TypeError", <<"Cannot read properties of null">>))
       ELSE LET detail == GetProp(errorData, <<"detail">>) IN
            Reject(ApiError(IF Truthy(detail) THEN ToStringJs(detail) ELSE HttpMessage(status),
                            status, errorData))
  ELSE IF parsed.ok THEN Resolve(parsed.val)
  ELSE Reject(RawError("SyntaxError", <<"Unexpected token">>))

\* the catch of apiRequest that lets the failure through as it is
apiRequestCatch_Rethrow(error) == error

\* the catch of apiRequest, reached when fetch rejects
apiRequestCatch(error) ==
  IF error.name = "ApiError" THEN error
  ELSE ApiError(IF error.message # <<>> THEN error.message ELSE <<"Network error">>, 0,
                JObj(<<Member("originalError", JObj(<<>>))>>))

SUCCESS == JStr(<<"success">>)

\* endpoints are sequences of path pieces, so that includes is a search for
\* a run of pieces
API_V1 == <<"/api", "/v1">>

getMockResponse(endpoint) ==
  IF Includes(endpoint, <<"/dashboard", "/stats">>)
  THEN JObj(<<Member("status", SUCCESS),
              Member("stats", JObj(<<Member("total_queries", JNum(0))>>))>>)
  ELSE IF Includes(endpoint, <<"/dashboard", "/activity">>)
  THEN JObj(<<Member("status", SUCCESS), Member("activity", JArr(<<>>))>>)
  ELSE IF Includes(endpoint, <<"/dashboard", "/weekly">>)
  THEN JObj(<<Member("status", SUCCESS), Member("weekly", JArr(<<>>))>>)
  ELSE IF Includes(endpoint, <<"/knowledge">>)
  THEN JObj(<<Member("status", SUCCESS), Member("categories", JObj(<<>>))>>)
  ELSE IF Includes(endpoint, <<"/system-instructions">>)
  THEN JObj(<<Member("status", SUCCESS), Member("content", JStr(<<>>))>>)
  ELSE IF Includes(endpoint, <<"/projects">>)
  THEN JObj(<<Member("status", SUCCESS), Member("projects", JArr(<<>>))>>)
  ELSE IF Includes(endpoint, <<"/contacts">>)
  THEN JObj(<<Member("status", SUCCESS),
              Member("contact", JObj(<<Member("email", JStr(<<>>)),
                                       Member("socials", JObj(<<>>))>>))>>)
  ELSE IF Includes(endpoint, <<"/communication">>)
  THEN JObj(<<Member("status", SUCCESS), Member("records", JArr(<<>>)),
              Member("count", JNum(0))>>)
  ELSE JObj(<<Member("status", SUCCESS), Member("data", JArr(<<>>))>>)

LOGIN_ENDPOINT == API_V1 \o <<"/auth", "/login">>

\* the endpoint of every method of the endpoint groups that goes through
\* apiRequest, with the group it belongs to
Endpoints ==
  {[group |-> "auth", endpoint |-> LOGIN_ENDPOINT],
   [group |-> "systemInstructions", endpoint |-> API_V1 \o <<"/system-instructions">>],
   [group |-> "systemInstructions", endpoint |-> API_V1 \o <<"/system-instructions", "/save">>],
   [group |-> "dashboard", endpoint |-> API_V1 \o <<"/dashboard", "/stats">>],
   [group |-> "dashboard", endpoint |-> API_V1 \o <<"/dashboard", "/activity", "?limit=10">>],
   [group |-> "dashboard", endpoint |-> API_V1 \o <<"/dashboard", "/weekly">>],
   [group |-> "knowledge", endpoint |-> API_V1 \o <<"/knowledge">>],
   [group |-> "knowledge", endpoint |-> API_V1 \o <<"/knowledge", "/categories">>],
   [group |-> "knowledge", endpoint |-> API_V1 \o <<"/knowledge", "/projects">>],
   [group |-> "knowledge", endpoint |-> API_V1 \o <<"/knowledge", "/projects", "/save">>],
   [group |-> "contacts", endpoint |-> API_V1 \o <<"/contacts">>],
   [group |-> "contacts", endpoint |-> API_V1 \o <<"/contacts", "/save">>],
   [group |-> "communication", endpoint |-> API_V1 \o <<"/communication">>],
   [group |-> "communication", endpoint |-> API_V1 \o <<"/communication", "?status=new">>],
   [group |-> "communication", endpoint |-> API_V1 \o <<"/communication", "/r1", "/status">>],
   [group |-> "communication", endpoint |-> API_V1 \o <<"/communication", "/r1">>],
   [group |-> "projects", endpoint |-> API_V1 \o <<"/projects">>],
   [group |-> "projects", endpoint |-> API_V1 \o <<"/projects", "/save">>],
   [group |-> "projects", endpoint |-> API_V1 \o <<"/projects", "/upload-image">>]}

\* authApi.login after apiRequest resolved with result; quotaToken,
\* quotaUser = FALSE: the respective setItem throws
loginStore(session, result, quotaToken, quotaUser) ==
  IF result = JNull
  THEN [store |-> session,
        error |-> RawError("TypeError", <<"Cannot read properties of null">>)]
  ELSE
    LET token == GetProp(result, <<"token">>)
        user == GetProp(result, <<"user">>)
        withToken == StorageSetItem(session, TOKEN_STORAGE_KEY, ToStringJs(token))
    IN
    IF GetProp(result, <<"status">>) = SUCCESS /\ Truthy(token)
    THEN IF ~quotaToken
         THEN [store |-> session, error |-> RawError("QuotaExceededError", <<"quota">>)]
         ELSE IF Truthy(user)
         THEN IF ~quotaUser
              THEN [store |-> withToken, error |-> RawError("QuotaExceededError", <<"quota">>)]
              ELSE [store |-> StorageSetItem(withToken, USER_INFO_KEY, JsonStringify(user)),
                    error |-> NoError]
         ELSE [store |-> withToken, error |-> NoError]
    ELSE [store |-> session, error |-> NoError]

\* authApi.login stored the token of result: the login succeeded
loginStored(result, quotaToken) ==
  /\ result # JNull
  /\ GetProp(result, <<"status">>) = SUCCESS
  /\ Truthy(GetProp(result, <<"token">>))
  /\ quotaToken

logout(session, local) ==
  [session |-> StorageRemoveItem(StorageRemoveItem(session, TOKEN_STORAGE_KEY), USER_INFO_KEY),
   local |-> StorageRemoveItem(local, ADMIN_SESSION_KEY)]

(***************************************************************************)
(* Values the API client model draws                                       *)
(***************************************************************************)
T_OLD == <<"tok0">>
T_LOGIN == <<"tok1">>
T_NEW == <<"tok2">>
USER == JObj(<<Member("username", JStr(<<"admin">>))>>)

\* the storages as the rest of the application (AuthContext) and earlier
\* sessions may have left them when the API client is first used
InitialSessions ==
  {<<>>,
   (TOKEN_STORAGE_KEY :> DEMO_TOKEN),
   (TOKEN_STORAGE_KEY :> T_OLD) @@ (USER_INFO_KEY :> JsonStringify(USER))}
InitialLocals ==
  {<<>>,
   (TOKEN_STORAGE_KEY :> T_OLD) @@ (ADMIN_SESSION_KEY :> <<"{}">>),
   (TOKEN_STORAGE_KEY :> DEMO_TOKEN)}

Statuses == {200, 401, 403, 503}
NewTokens == {<<>>, T_NEW}

NOT_JSON == <<"<html>">>
ErrorBodies ==
  {NOT_JSON,
   JsonStringify(JNull),
   JsonStringify(JObj(<<>>)),
   JsonStringify(JObj(<<Member("detail", JStr(<<"Not allowed">>))>>)),
   JsonStringify(JObj(<<Member("detail", JStr(<<>>))>>))}
PayloadBodies == {NOT_JSON, JsonStringify(JNull), JsonStringify(CONTENT)}
LoginBodies ==
  {NOT_JSON,
   JsonStringify(JNull),
   JsonStringify(JObj(<<Member("status", SUCCESS), Member("token", JStr(T_LOGIN)),
                        Member("user", USER)>>)),
   JsonStringify(JObj(<<Member("status", SUCCESS), Member("token", JStr(T_LOGIN))>>)),
   JsonStringify(JObj(<<Member("status", SUCCESS)>>)),
   JsonStringify(JObj(<<Member("status", JStr(<<"error">>)), Member("token", JStr(T_LOGIN))>>))}

\* the bodies a response with this status to this caller may have
BodiesFor(caller, status) ==
  IF ~ResponseOk(status) THEN ErrorBodies
  ELSE IF caller = "login" THEN LoginBodies
  ELSE PayloadBodies

\* response.json() on each body, computed once
BodyTexts == ErrorBodies \cup PayloadBodies \cup LoginBodies
ResponseJson == [body \in BodyTexts |-> JsonParse(body)]

FetchErrors == {RawError("TypeError", <<"Failed to fetch">>), RawError("AbortError", <<>>)}

Pending == [kind |-> "none", val |-> JUndefined, error |-> NoError]

\* op: "demo" (a call answered by getMockResponse, to endpoint), "fetch" (a
\* call that issued a request), "response" (handleResponse up to the body read),
\* "settled" (the call resolved or rejected), "logout"; caller: "api",
\* "login" or "health"; status, newToken, body: of the response; wrote: no setItem
\* of the step threw; outcome: how the call settled; expired: auth:expired
\* was dispatched; fetched: fetch was called
ApiEvent(op, caller, endpoint) ==
  [op |-> op, caller |-> caller, endpoint |-> endpoint, status |-> -1, newToken |-> <<>>,
   body |-> <<>>, wrote |-> TRUE, outcome |-> Pending, expired |-> FALSE, fetched |-> FALSE]
NoApiEvent == ApiEvent("init", "none", <<>>)

Request(caller) == [caller |-> caller, phase |-> "fetch", status |-> 0]

InitApi ==
  /\ localStorage = <<>>
  /\ requests = <<>>
  /\ aev = NoApiEvent
  /\ loggedOut = FALSE

InitToast ==
  /\ toasts = <<>>
  /\ ref = <<>>
  /\ timers = <<>>
  /\ containerMounted = FALSE
  /\ isMobile = FALSE
  /\ narrow \in BOOLEAN
  /\ nextId = 0
  /\ listening = TRUE
  /\ tev = ToastEvent("init", <<>>, <<>>, <<>>, <<>>)

\* the sections of KnowledgeBasePage that the model follows
Sections == {"about-me", "tech-stack"}

InitPage ==
  /\ isSaving = [id \in Sections |-> FALSE]
  /\ hasChanges = [id \in Sections |-> FALSE]

Init == InitCache /\ InitToast /\ InitApi /\ InitPage

(***************************************************************************)
(* Operations of the queue                                                 *)
(***************************************************************************)
\* addToast(toast), also as the handler of an add-toast event
AddToast(toast) ==
  LET r == addToast(toasts, toast, GeneratedId(nextId + 1)) IN
  /\ listening
  /\ Len(toasts) < MaxToasts
  /\ r.usedGenerated => nextId < MaxGen
  /\ toasts' = r.toasts
  /\ ref' = RefAdd(ref, r.toasts[Len(r.toasts)])
  /\ timers' = Append(timers, IF containerMounted
                              THEN ToastItemEffect(r.toasts[Len(r.toasts)], isMobile)
                              ELSE 0)
  /\ nextId' = IF r.usedGenerated THEN nextId + 1 ELSE nextId
  /\ tev' = ToastEvent("add", r.id, toast, r.id, r.dispatched)
  /\ UNCHANGED <<containerMounted, isMobile, narrow, listening, cacheVars, authVars, pageVars>>

\* updateToast(id, updates), also as the handler of an update-toast event
UpdateToast(id, updates) ==
  LET r == updateToast(toasts, id, updates) IN
  /\ listening
  /\ toasts' = r.toasts
  /\ ref' = RefUpdate(ref, id, updates)
  /\ timers' = RerenderAll(toasts, isMobile, timers, r.toasts, isMobile, containerMounted)
  /\ tev' = ToastEvent("update", id, updates, <<>>, r.dispatched)
  /\ UNCHANGED <<containerMounted, isMobile, narrow, nextId, listening, cacheVars, authVars, pageVars>>

\* removeToast(id), also as the onClose of the close button
RemoveToast(id) ==
  /\ listening
  /\ toasts' = removeToast(toasts, id)
  /\ ref' = RefRemove(ref, id)
  /\ timers' = DropTimers(toasts, timers, id)
  /\ tev' = ToastEvent("remove", id, <<>>, <<>>, <<>>)
  /\ UNCHANGED <<containerMounted, isMobile, narrow, nextId, listening, cacheVars, authVars, pageVars>>

\* the timer of an item fires: onClose(id)
TimerFire(id) ==
  /\ \E i \in 1..Len(toasts) : toasts[i].id = id /\ timers[i] > 0
  /\ toasts' = removeToast(toasts, id)
  /\ ref' = RefRemove(ref, id)
  /\ timers' = DropTimers(toasts, timers, id)
  /\ tev' = ToastEvent("timer", id, <<>>, <<>>, <<>>)
  /\ UNCHANGED <<containerMounted, isMobile, narrow, nextId, listening, cacheVars, authVars, pageVars>>

\* ToastContainer mounts: isMobile starts false, the mount effect runs
\* checkMobile, every item mounts
MountContainer ==
  /\ ~containerMounted
  /\ containerMounted' = TRUE
  /\ isMobile' = narrow
  /\ timers' = [i \in 1..Len(toasts) |-> ToastItemEffect(toasts[i], narrow)]
  /\ tev' = ToastEvent("mount", <<>>, <<>>, <<>>, <<>>)
  /\ UNCHANGED <<toasts, ref, narrow, nextId, listening, cacheVars, authVars, pageVars>>

\* ToastContainer unmounts: the cleanup of every item clears its timer
UnmountContainer ==
  /\ containerMounted
  /\ containerMounted' = FALSE
  /\ isMobile' = FALSE
  /\ timers' = [i \in 1..Len(toasts) |-> 0]
  /\ tev' = ToastEvent("unmount", <<>>, <<>>, <<>>, <<>>)
  /\ UNCHANGED <<toasts, ref, narrow, nextId, listening, cacheVars, authVars, pageVars>>

\* the window is resized across the 768px breakpoint: checkMobile
Resize ==
  /\ narrow' = ~narrow
  /\ isMobile' = IF containerMounted THEN narrow' ELSE isMobile
  /\ timers' = RerenderAll(toasts, isMobile, timers, toasts, isMobile', containerMounted)
  /\ tev' = ToastEvent("resize", <<>>, <<>>, <<>>, <<>>)
  /\ UNCHANGED <<toasts, ref, containerMounted, nextId, listening, cacheVars, authVars, pageVars>>

\* showSuccess(message)
ShowSuccess(message) ==
  LET r == showSuccess(toasts, message, GeneratedId(nextId + 1)) IN
  /\ listening
  /\ Len(toasts) < MaxToasts
  /\ nextId < MaxGen
  /\ toasts' = r.toasts
  /\ ref' = RefAdd(ref, r.toasts[Len(r.toasts)])
  /\ timers' = Append(timers, IF containerMounted
                              THEN ToastItemEffect(r.toasts[Len(r.toasts)], isMobile)
                              ELSE 0)
  /\ nextId' = nextId + 1
  /\ tev' = ToastEvent("showSuccess", r.id, message, r.id, r.dispatched)
  /\ UNCHANGED <<containerMounted, isMobile, narrow, listening, cacheVars, authVars, pageVars>>

\* showError(message)
ShowError(message) ==
  LET r == showError(toasts, message, GeneratedId(nextId + 1)) IN
  /\ listening
  /\ Len(toasts) < MaxToasts
  /\ nextId < MaxGen
  /\ toasts' = r.toasts
  /\ ref' = RefAdd(ref, r.toasts[Len(r.toasts)])
  /\ timers' = Append(timers, IF containerMounted
                              THEN ToastItemEffect(r.toasts[Len(r.toasts)], isMobile)
                              ELSE 0)
  /\ nextId' = nextId + 1
  /\ tev' = ToastEvent("showError", r.id, message, r.id, r.dispatched)
  /\ UNCHANGED <<containerMounted, isMobile, narrow, listening, cacheVars, authVars, pageVars>>

\* window.dispatchEvent(new CustomEvent('add-toast', {detail})): the
\* listener runs only while it is registered
DispatchAddToast(detail) ==
  LET r == handleAddToast(toasts, detail, GeneratedId(nextId + 1)) IN
  /\ listening => (Len(toasts) < MaxToasts /\ (r.usedGenerated => nextId < MaxGen))
  /\ toasts' = IF listening THEN r.toasts ELSE toasts
  /\ ref' = IF listening THEN RefAdd(ref, r.toasts[Len(r.toasts)]) ELSE ref
  /\ timers' = IF listening
               THEN Append(timers, IF containerMounted
                                   THEN ToastItemEffect(r.toasts[Len(r.toasts)], isMobile)
                                   ELSE 0)
               ELSE timers
  /\ nextId' = IF listening /\ r.usedGenerated THEN nextId + 1 ELSE nextId
  /\ tev' = ToastEvent("add-toast", IF listening THEN r.id ELSE <<>>, detail, <<>>,
                       IF listening THEN r.dispatched ELSE <<>>)
  /\ UNCHANGED <<containerMounted, isMobile, narrow, listening, cacheVars, authVars, pageVars>>

\* window.dispatchEvent(new CustomEvent('update-toast', {detail}))
DispatchUpdateToast(detail) ==
  LET r == handleUpdateToast(toasts, detail) IN
  /\ toasts' = IF listening THEN r.toasts ELSE toasts
  /\ ref' = IF listening THEN RefUpdate(ref, detail.id, detail) ELSE ref
  /\ timers' = IF listening
               THEN RerenderAll(toasts, isMobile, timers, r.toasts, isMobile, containerMounted)
               ELSE timers
  /\ tev' = ToastEvent("update-toast", detail.id, detail, <<>>,
                       IF listening THEN r.dispatched ELSE <<>>)
  /\ UNCHANGED <<containerMounted, isMobile, narrow, nextId, listening, cacheVars, authVars, pageVars>>

\* ToastProvider mounts: the queue starts empty, the effect registers the
\* listeners
MountProvider ==
  /\ ~listening
  /\ listening' = TRUE
  /\ toasts' = <<>>
  /\ ref' = <<>>
  /\ timers' = <<>>
  /\ tev' = ToastEvent("mountProvider", <<>>, <<>>, <<>>, <<>>)
  /\ UNCHANGED <<containerMounted, isMobile, narrow, nextId, cacheVars, authVars, pageVars>>

\* ToastProvider unmounts: the cleanup of the effect removes the listeners,
\* the state of the provider is discarded
UnmountProvider ==
  /\ listening
  /\ listening' = FALSE
  /\ toasts' = <<>>
  /\ ref' = <<>>
  /\ timers' = <<>>
  /\ tev' = ToastEvent("unmountProvider", <<>>, <<>>, <<>>, <<>>)
  /\ UNCHANGED <<containerMounted, isMobile, narrow, nextId, cacheVars, authVars, pageVars>>

\* the queue operations alone (no ToastContainer is rendered)
NextToast ==
  \/ \E toast \in AddInputs : AddToast(toast)
  \/ \E id \in AllIds, updates \in UpdateInputs : UpdateToast(id, updates)
  \/ \E id \in AllIds : RemoveToast(id)

SpecToast == Init /\ [][NextToast]_vars

\* the provider: its operations, the events of the window and its lifetime
NextProvider ==
  \/ \E toast \in ProviderAddInputs : AddToast(toast)
  \/ \E message \in SuccessMessages : ShowSuccess(message)
  \/ \E message \in ErrorMessages : ShowError(message)
  \/ \E id \in AllIds, updates \in ProviderUpdateInputs : UpdateToast(id, updates)
  \/ \E id \in AllIds : RemoveToast(id)
  \/ \E detail \in ProviderAddInputs : DispatchAddToast(detail)
  \/ \E id \in AllIds, updates \in ProviderUpdateInputs :
       DispatchUpdateToast(Payload(id, updates))
  \/ MountProvider
  \/ UnmountProvider

SpecProvider == Init /\ [][NextProvider]_vars

\* the queue under a ToastContainer, with the inputs that matter to the
\* timers, and the scheduling of the timers: an armed timer that is not
\* cleared fires
NextTimers ==
  \/ \E toast \in TimerAddInputs : AddToast(toast)
  \/ \E id \in AllIds, updates \in StatusInputs : UpdateToast(id, updates)
  \/ \E id \in AllIds : RemoveToast(id)
  \/ \E id \in AllIds : TimerFire(id)
  \/ MountContainer
  \/ UnmountContainer
  \/ Resize

SpecTimers ==
  Init /\ [][NextTimers]_vars /\ \A id \in AllIds : WF_vars(TimerFire(id))

\* the cache used through get, clear and cachedApiCall
NextCache ==
  \/ \E k \in CacheKeys : GetCachedCall(k)
  \/ \E k \in CacheKeys : ClearCachedCall(k)
  \/ \E k \in CacheKeys, force \in BOOLEAN : CachedApiCall(k, force)
  \/ \E i \in 1..Len(inflight) : BackendRead(i)
  \/ \E i \in 1..Len(inflight), o \in Outcomes, q \in BOOLEAN : SettleCall(i, o, q)

SpecCache == Init /\ [][NextCache]_vars

\* the cache used by the pages: loads, refreshes and saves
NextPages ==
  \/ \E k \in CacheKeys, force \in BOOLEAN : LoadPage(k, force)
  \/ \E i \in 1..Len(inflight) : BackendRead(i)
  \/ \E i \in 1..Len(inflight), o \in Outcomes, q \in BOOLEAN : SettleCall(i, o, q)
  \/ \E k \in CacheKeys : SaveApply(k)
  \/ \E i \in 1..Len(pendingSaves) : SaveDone(i)
  \/ \E i \in 1..Len(pendingSaves) : SaveFail(i)

SpecPages == Init /\ [][NextPages]_vars

\* set / get / clear alone, over a larger universe of JSON values
NextKV ==
  \/ \E k \in CacheKeys, v \in JsonVals, q \in BOOLEAN : SetCachedCall(k, v, q)
  \/ \E k \in CacheKeys : GetCachedCall(k)
  \/ \E k \in CacheKeys : ClearCachedCall(k)

SpecKV == Init /\ [][NextKV]_vars

(***************************************************************************)
(* Saving a section of the knowledge base (KnowledgeBasePage)              *)
(***************************************************************************)
ActionSaved == <<"S", "a", "v", "e", "d">>
ActionError == <<"E", "r", "r", "o", "r">>

\* the entry that handleSaveSection adds when the save resolved
SavedToast(id) ==
  [action |-> ActionSaved, fileName |-> id, status |-> "complete",
   message |-> "Section updated successfully"]

\* the entry that handleSaveSection adds when the save rejected
SaveErrorToast(id) ==
  [action |-> ActionError, fileName |-> id, status |-> "error",
   message |-> "Failed to save section"]

\* handleChange: the text of the section now differs from its content
HandleChange(id) ==
  /\ ~hasChanges[id]
  /\ hasChanges' = [hasChanges EXCEPT ![id] = TRUE]
  /\ Log(Other("change"))
  /\ UNCHANGED <<isSaving, sessionStorage, inflight, pendingSaves, saveVer, cacheVer,
                 clearedVer, toastVars, authVars>>

\* handleSave up to `await onSave(id, text)`, that is handleSaveSection up
\* to `await api.chatbotKnowledge.save(id, newContent)`; the button is
\* disabled when !hasChanges || isSaving
HandleSave(id) ==
  /\ hasChanges[id] /\ ~isSaving[id]
  /\ saveVer[KNOWLEDGE_BASE_ALL] + Len(pendingSaves) < MaxSaves
  /\ Len(toasts) + Len(pendingSaves) < MaxToasts
  /\ nextId + Len(pendingSaves) < MaxGen
  /\ isSaving' = [isSaving EXCEPT ![id] = TRUE]
  /\ pendingSaves' = Append(pendingSaves, [key |-> KNOWLEDGE_BASE_ALL, id |-> id])
  /\ Log(Other("save"))
  /\ UNCHANGED <<hasChanges, sessionStorage, inflight, saveVer, cacheVer, clearedVer,
                 toastVars, authVars>>

\* handleSave after an await that throws: nothing after the await runs
handleSaveCatch(saving, id) == saving

\* the save resolves: handleSaveSection clears the cache entry, sets the
\* content and adds the toast; handleSave resumes with setIsSaving(false),
\* setHasChanges(false)
SaveSectionResolve(i) ==
  LET s == pendingSaves[i]
      r == addToast(toasts, SavedToast(s.id), GeneratedId(nextId + 1)) IN
  /\ sessionStorage' = clearCached(sessionStorage, s.key)
  /\ pendingSaves' = RemoveAt(pendingSaves, i)
  /\ saveVer' = [saveVer EXCEPT ![s.key] = @ + 1]
  /\ clearedVer' = [clearedVer EXCEPT ![s.key] = saveVer[s.key] + 1]
  /\ Log(Event("saved", s.key, FALSE, JStr(<<s.id>>), 0, TRUE))
  /\ toasts' = r.toasts
  /\ ref' = RefAdd(ref, r.toasts[Len(r.toasts)])
  /\ timers' = Append(timers, IF containerMounted
                              THEN ToastItemEffect(r.toasts[Len(r.toasts)], isMobile)
                              ELSE 0)
  /\ nextId' = nextId + 1
  /\ tev' = ToastEvent("add", r.id, SavedToast(s.id), r.id, r.dispatched)
  /\ isSaving' = [isSaving EXCEPT ![s.id] = FALSE]
  /\ hasChanges' = [hasChanges EXCEPT ![s.id] = FALSE]
  /\ UNCHANGED <<inflight, cacheVer, containerMounted, isMobile, narrow, listening, authVars>>

\* the save rejects: the catch of handleSaveSection adds the toast and
\* throws again, out of the await of handleSave
SaveSectionReject(i) ==
  LET s == pendingSaves[i]
      r == addToast(toasts, SaveErrorToast(s.id), GeneratedId(nextId + 1)) IN
  /\ pendingSaves' = RemoveAt(pendingSaves, i)
  /\ Log(Event("saveFailed", s.key, FALSE, JStr(<<s.id>>), 0, TRUE))
  /\ toasts' = r.toasts
  /\ ref' = RefAdd(ref, r.toasts[Len(r.toasts)])
  /\ timers' = Append(timers, IF containerMounted
                              THEN ToastItemEffect(r.toasts[Len(r.toasts)], isMobile)
                              ELSE 0)
  /\ nextId' = nextId + 1
  /\ tev' = ToastEvent("add", r.id, SaveErrorToast(s.id), r.id, r.dispatched)
  /\ isSaving' = handleSaveCatch(isSaving, s.id)
  /\ UNCHANGED <<hasChanges, sessionStorage, inflight, saveVer, cacheVer, clearedVer,
                 containerMounted, isMobile, narrow, listening, authVars>>

\* the page after loadAllCategories has filled the cache, or with the cache
\* entry missing (the write failed, or a save cleared it)
InitSave ==
  /\ sessionStorage \in {<<>>, setCached(<<>>, KNOWLEDGE_BASE_ALL, CONTENT, TRUE)}
  /\ inflight = <<>>
  /\ pendingSaves = <<>>
  /\ saveVer = [k \in CacheKeys |-> 0]
  /\ cacheVer = [k \in CacheKeys |-> 0]
  /\ clearedVer = [k \in CacheKeys |-> 0]
  /\ ev = NoEvent
  /\ InitToast
  /\ InitApi
  /\ InitPage

NextSave ==
  \/ \E id \in Sections : HandleChange(id)
  \/ \E id \in Sections : HandleSave(id)
  \/ \E i \in 1..Len(pendingSaves) : SaveSectionResolve(i)
  \/ \E i \in 1..Len(pendingSaves) : SaveSectionReject(i)
  \/ \E id \in AllIds : RemoveToast(id)

SpecSave == InitSave /\ [][NextSave]_vars

(***************************************************************************)
(* Operations of the API client                                            *)
(***************************************************************************)
ApiFrame ==
  UNCHANGED <<inflight, pendingSaves, saveVer, cacheVer, clearedVer, ev, toastVars, pageVars>>

\* outside demo mode the endpoint only names the URL fetched, which the
\* model does not keep: one endpoint stands for all
FetchedEndpoint ==
  [group |-> "systemInstructions", endpoint |-> API_V1 \o <<"/system-instructions">>]

\* apiRequest(endpoint) up to `await fetch`, as called by a method of an
\* endpoint group other than authApi.login; in demo mode the whole call
ApiRequest(e) ==
  /\ e.group # "auth"
  /\ IF isDemoMode(sessionStorage, localStorage)
     THEN /\ aev' = [ApiEvent("demo", "api", e.endpoint) EXCEPT
                       !.outcome = Resolve(getMockResponse(e.endpoint))]
          /\ UNCHANGED requests
     ELSE /\ e = FetchedEndpoint
          /\ Len(requests) < MaxRequests
          /\ requests' = Append(requests, Request("api"))
          /\ aev' = [ApiEvent("fetch", "api", <<>>) EXCEPT !.fetched = TRUE]
  /\ UNCHANGED <<sessionStorage, localStorage, loggedOut>>
  /\ ApiFrame

\* authApi.login(username, password) up to `await fetch` in apiRequest; in
\* demo mode the whole call
Login(quotaToken, quotaUser) ==
  /\ IF isDemoMode(sessionStorage, localStorage)
     THEN LET result == getMockResponse(LOGIN_ENDPOINT)
              ls == loginStore(sessionStorage, result, quotaToken, quotaUser)
          IN
          /\ sessionStorage' = ls.store
          /\ aev' = [ApiEvent("demo", "login", LOGIN_ENDPOINT) EXCEPT
                       !.outcome = IF ls.error = NoError THEN Resolve(result)
                                   ELSE Reject(ls.error),
                       !.wrote = (ls.error = NoError)]
          /\ loggedOut' = IF loginStored(result, quotaToken) THEN FALSE ELSE loggedOut
          /\ UNCHANGED requests
     ELSE /\ quotaToken /\ quotaUser
          /\ Len(requests) < MaxRequests
          /\ requests' = Append(requests, Request("login"))
          /\ aev' = [ApiEvent("fetch", "login", <<>>) EXCEPT !.fetched = TRUE]
          /\ UNCHANGED <<sessionStorage, loggedOut>>
  /\ UNCHANGED localStorage
  /\ ApiFrame

\* healthApi.check() up to `await fetch`; in demo mode the whole call
HealthCheck ==
  /\ IF isDemoMode(sessionStorage, localStorage)
     THEN /\ aev' = [ApiEvent("demo", "health", <<>>) EXCEPT !.outcome = Resolve(JBool(TRUE))]
          /\ UNCHANGED requests
     ELSE /\ Len(requests) < MaxRequests
          /\ requests' = Append(requests, Request("health"))
          /\ aev' = [ApiEvent("fetch", "health", <<>>) EXCEPT !.fetched = TRUE]
  /\ UNCHANGED <<sessionStorage, localStorage, loggedOut>>
  /\ ApiFrame

\* fetch rejects: no response was obtained
FetchFail(i, error) ==
  /\ requests[i].phase = "fetch"
  /\ requests' = RemoveAt(requests, i)
  /\ aev' = [ApiEvent("settled", requests[i].caller, <<>>) EXCEPT
               !.status = 0,
               !.outcome = IF requests[i].caller = "health" THEN Resolve(JBool(FALSE))
                           ELSE Reject(apiRequestCatch(error))]
  /\ UNCHANGED <<sessionStorage, localStorage, loggedOut>>
  /\ ApiFrame

\* fetch resolves with a response: healthApi.check returns response.ok; the
\* other callers run handleResponse up to the body read (a failing setItem
\* is drawn only where setItem is called)
Respond(i, status, newToken, quotaOk) ==
  /\ requests[i].phase = "fetch"
  /\ quotaOk \/ (newToken # <<>> /\ requests[i].caller # "health")
  /\ IF requests[i].caller = "health"
     THEN /\ requests' = RemoveAt(requests, i)
          /\ aev' = [ApiEvent("settled", "health", <<>>) EXCEPT
                       !.status = status, !.outcome = Resolve(JBool(ResponseOk(status)))]
          /\ UNCHANGED sessionStorage
     ELSE LET r == handleResponseBegin(sessionStorage, status, newToken, quotaOk) IN
          /\ sessionStorage' = r.store
          /\ requests' = IF r.threw THEN RemoveAt(requests, i)
                         ELSE [requests EXCEPT ![i] = [@ EXCEPT !.phase = "body",
                                                                !.status = status]]
          /\ aev' = [ApiEvent("response", requests[i].caller, <<>>) EXCEPT
                       !.status = status, !.newToken = newToken, !.wrote = ~r.threw,
                       !.expired = r.expired,
                       !.outcome = IF r.threw
                                   THEN Reject(RawError("QuotaExceededError", <<"quota">>))
                                   ELSE Pending]
  /\ UNCHANGED <<localStorage, loggedOut>>
  /\ ApiFrame

\* response.json() settles on the body received: handleResponse finishes,
\* and authApi.login continues when apiRequest resolved (a failing setItem
\* is drawn only where login goes on)
BodyRead(i, body, quotaToken, quotaUser) ==
  LET caller == requests[i].caller
      o == handleResponseEnd(requests[i].status, ResponseJson[body])
      ls == IF caller = "login" /\ o.kind = "resolve"
            THEN loginStore(sessionStorage, o.val, quotaToken, quotaUser)
            ELSE [store |-> sessionStorage, error |-> NoError]
  IN
  /\ requests[i].phase = "body"
  /\ body \in BodiesFor(caller, requests[i].status)
  /\ (quotaToken /\ quotaUser) \/ (caller = "login" /\ o.kind = "resolve")
  /\ requests' = RemoveAt(requests, i)
  /\ sessionStorage' = ls.store
  /\ aev' = [ApiEvent("settled", caller, <<>>) EXCEPT
               !.status = requests[i].status, !.body = body,
               !.wrote = (ls.error = NoError),
               !.outcome = IF ls.error = NoError THEN o ELSE Reject(ls.error)]
  /\ loggedOut' = IF caller = "login" /\ o.kind = "resolve" /\ loginStored(o.val, quotaToken)
                  THEN FALSE ELSE loggedOut
  /\ UNCHANGED localStorage
  /\ ApiFrame

\* authApi.logout()
Logout ==
  LET r == logout(sessionStorage, localStorage) IN
  /\ sessionStorage' = r.session
  /\ localStorage' = r.local
  /\ aev' = [ApiEvent("logout", "none", <<>>) EXCEPT
               !.outcome = Resolve(JObj(<<Member("status", SUCCESS)>>))]
  /\ loggedOut' = TRUE
  /\ UNCHANGED requests
  /\ ApiFrame

\* the API client, from any storage content it may find
NextApi ==
  \/ \E e \in Endpoints : ApiRequest(e)
  \/ \E qt, qu \in BOOLEAN : Login(qt, qu)
  \/ HealthCheck
  \/ \E i \in 1..Len(requests), error \in FetchErrors : FetchFail(i, error)
  \/ \E i \in 1..Len(requests), status \in Statuses, newToken \in NewTokens, q \in BOOLEAN :
       Respond(i, status, newToken, q)
  \/ \E i \in 1..Len(requests), body \in BodyTexts, qt, qu \in BOOLEAN :
       BodyRead(i, body, qt, qu)
  \/ Logout

InitStored ==
  /\ sessionStorage \in InitialSessions
  /\ localStorage \in InitialLocals
  /\ requests = <<>>
  /\ aev = NoApiEvent
  /\ loggedOut = FALSE
  /\ inflight = <<>>
  /\ pendingSaves = <<>>
  /\ saveVer = [k \in CacheKeys |-> 0]
  /\ cacheVer = [k \in CacheKeys |-> 0]
  /\ clearedVer = [k \in CacheKeys |-> 0]
  /\ ev = NoEvent
  /\ InitToast
  /\ InitPage

SpecApi == InitStored /\ [][NextApi]_vars

\* cache entries that an earlier page load of the tab may have left
InitialCaches ==
  {<<>>} \cup {((CACHE_PREFIX \o SYSTEM_INSTRUCTIONS) :> text) : text \in CorruptTexts}
StorageLocals == {<<>>, (TOKEN_STORAGE_KEY :> T_OLD)}
StorageOutcomes ==
  {[kind |-> "resolve", val |-> CONTENT], [kind |-> "reject", val |-> JStr(<<"HTTP 500">>)]}

\* the tab-scoped storage as a whole: the cache beside the token and the
\* user-info
InitStorage ==
  /\ sessionStorage \in {c @@ t : c \in InitialCaches, t \in InitialSessions}
  /\ localStorage \in StorageLocals
  /\ requests = <<>>
  /\ aev = NoApiEvent
  /\ loggedOut = FALSE
  /\ inflight = <<>>
  /\ pendingSaves = <<>>
  /\ saveVer = [k \in CacheKeys |-> 0]
  /\ cacheVer = [k \in CacheKeys |-> 0]
  /\ clearedVer = [k \in CacheKeys |-> 0]
  /\ ev = NoEvent
  /\ InitToast
  /\ InitPage

NextStorage ==
  \/ \E k \in CacheKeys, q \in BOOLEAN : SetCachedCall(k, JNum(0), q)
  \/ \E k \in CacheKeys : GetCachedCall(k)
  \/ ClearAllCachedCall
  \/ \E k \in CacheKeys : CachedApiCall(k, FALSE)
  \/ \E i \in 1..Len(inflight) : BackendRead(i)
  \/ \E i \in 1..Len(inflight), o \in StorageOutcomes, q \in BOOLEAN : SettleCall(i, o, q)

SpecStorage == InitStorage /\ [][NextStorage]_vars

(***************************************************************************)
(* Properties of the notification queue                                    *)
(***************************************************************************)
\* C1: the queue never holds two entries with the same id.
C1_UniqueIds ==
  \A i, j \in 1..Len(toasts) : i # j => toasts[i].id # toasts[j].id

\* C2: the queue always equals the result of applying the operations issued
\* so far, left to right, with the reference semantics (add appends, update
\* merges field by field in place, remove deletes); update and remove of an
\* id that is not in the queue change nothing.
C2_MatchesReference ==
  /\ [](toasts = ref)
  /\ [][(tev'.op \in {"update", "remove"} /\ \A i \in 1..Len(toasts) : toasts[i].id # tev'.id)
          => toasts' = toasts]_vars

C2_Witness ==
  /\ tev.op = "update" /\ tev.arg = [status |-> "error"] /\ Len(toasts) = 2
  /\ \E i \in 1..2 : /\ toasts[i].id = tev.id
                     /\ toasts[i].status = "error"
                     /\ toasts[i].type = UPLOAD
                     /\ toasts[3 - i].id # tev.id
                     /\ toasts[3 - i].status # "error"

\* C3: when the queue holds only the entry made by add({title: "Upload",
\* status: "pending"}), update(X, {status: "complete", type: "upload"}) leaves
\* one entry, with status complete, and dispatches data-changed tagged upload.
C3_ScenarioA ==
  [][(/\ Len(toasts) = 1
      /\ toasts[1] = NewToast(ScenarioA_Add, toasts[1].id)
      /\ tev'.op = "update" /\ tev'.id = toasts[1].id /\ tev'.arg = ScenarioA_Update)
       => (/\ Len(toasts') = 1
           /\ toasts'[1].status = "complete"
           /\ tev'.dispatched = <<"upload">>)]_vars

\* C4: while the container is mounted, every entry with status complete or
\* error has a timer armed with the delay of the current viewport, and it
\* does not stay in the queue with that status forever.
InQueueTerminal(id) ==
  containerMounted /\ \E i \in 1..Len(toasts) : toasts[i].id = id /\ IsTerminal(toasts[i])

C4_AutoDismiss ==
  /\ [](containerMounted =>
          \A i \in 1..Len(toasts) :
            IsTerminal(toasts[i]) =>
              timers[i] = (IF narrow THEN MobileDelay ELSE DesktopDelay))
  /\ \A id \in AllIds : InQueueTerminal(id) ~> ~InQueueTerminal(id)

C4_Witness ==
  /\ tev.op = "timer" /\ containerMounted /\ isMobile
  /\ \A i \in 1..Len(toasts) : toasts[i].id # tev.id
  /\ \E i \in 1..Len(toasts) : timers[i] = MobileDelay

\* the defaults of the fields of an entry
Defaults ==
  [status |-> "pending", progress |-> 0, title |-> "", message |-> "", fileName |-> "",
   action |-> <<>>, type |-> <<>>, bulkProgress |-> NULL]

\* C21: add(partialEntry) appends exactly one entry at the end of the queue
\* and returns the id of that entry, a generated one when none is supplied;
\* every field the caller did not set holds its default (status pending,
\* progress 0, empty strings, no bulkProgress).
C21_AddAppends ==
  [][tev'.op = "add" =>
       /\ Len(toasts') = Len(toasts) + 1
       /\ SubSeq(toasts', 1, Len(toasts)) = toasts
       /\ toasts'[Len(toasts')].id = tev'.ret
       /\ (~Has(tev'.arg, "id") => tev'.ret = GeneratedId(nextId + 1))
       /\ \A f \in DOMAIN Defaults \ DOMAIN tev'.arg :
            toasts'[Len(toasts')][f] = Defaults[f]]_vars

\* C22: while the provider is mounted, an add-toast event with payload e
\* changes the queue as add(e) does, and an update-toast event with payload
\* {id, ...updates} changes the queue and broadcasts data-changed as
\* update(id, updates) does; after the provider has unmounted, these events
\* change nothing.
C22_EventsAsCalls ==
  [][/\ (listening /\ tev'.op = "add-toast") =>
          /\ toasts' = addToast(toasts, tev'.arg, GeneratedId(nextId + 1)).toasts
          /\ tev'.dispatched = <<>>
     /\ (listening /\ tev'.op = "update-toast") =>
          /\ toasts' = updateToast(toasts, tev'.arg.id, Updates(tev'.arg)).toasts
          /\ tev'.dispatched =
               updateToast(toasts, tev'.arg.id, Updates(tev'.arg)).dispatched
     /\ (~listening /\ tev'.op \in {"add-toast", "update-toast"}) =>
          /\ toasts' = toasts
          /\ nextId' = nextId
          /\ tev'.dispatched = <<>>]_vars

C22_Witness ==
  /\ listening /\ tev.op = "update-toast" /\ tev.dispatched = <<"upload">>
  /\ tev.arg = Payload(OwnId, ScenarioA_Update)
  /\ \E i \in 1..Len(toasts) : toasts[i].id = OwnId /\ toasts[i].status = "complete"

\* the tag of the first of upload, archive, restore, delete that the
\* classifying string (type, else lowercased action) of an entry contains
ClaimedTag(toast) ==
  LET c == IF toast.type # <<>> THEN toast.type ELSE ToLowerCase(toast.action) IN
  IF Includes(c, UPLOAD) THEN <<"upload">>
  ELSE IF Includes(c, ARCHIVE) THEN <<"archive">>
  ELSE IF Includes(c, RESTORE) THEN <<"restore">>
  ELSE IF Includes(c, DELETE) THEN <<"delete">>
  ELSE <<>>

\* C23: update broadcasts data-changed at most once per call, and only when
\* the call changes the status of the entry from a non-complete value to
\* complete and the classifying string contains one of upload, archive,
\* restore, delete; the tag is the first match in that order.
C23_BroadcastOnce ==
  [][tev'.op = "update" =>
       /\ Len(tev'.dispatched) <= 1
       /\ tev'.dispatched # <<>> =>
            \E i \in 1..Len(toasts) :
              /\ toasts[i].id = tev'.id
              /\ toasts[i].status # "complete"
              /\ toasts'[i].status = "complete"
              /\ \E e \in {toasts[i], toasts'[i]} :
                   ClaimedTag(e) # <<>> /\ tev'.dispatched = ClaimedTag(e)]_vars

\* the positions of the rendered items of an id whose timer is armed
ArmedTimers(id) == {i \in 1..Len(toasts) : toasts[i].id = id /\ timers[i] > 0}

InQueue(q, id) == \E i \in 1..Len(q) : q[i].id = id

\* C24: at every moment at most one auto-dismiss timer is armed per id; once
\* an entry has been removed manually no timer is left armed for its id, and
\* an id that is not in the queue comes back only through add.
C24_OneTimerPerId ==
  /\ [](\A id \in AllIds : Cardinality(ArmedTimers(id)) <= 1)
  /\ [][tev'.op = "remove" => (/\ ~InQueue(toasts', tev'.id)
                               /\ Len(timers') = Len(toasts'))]_vars
  /\ [][\A id \in AllIds :
          (~InQueue(toasts, id) /\ InQueue(toasts', id)) => tev'.op = "add"]_vars

\* C28: update(id, updates) never changes the number of entries of the
\* queue, their order or the id of any entry, whatever fields the updates
\* object has, an id field included.
C28_UpdateKeepsIds ==
  [][tev'.op = "update" =>
       /\ Len(toasts') = Len(toasts)
       /\ \A i \in 1..Len(toasts) : toasts'[i].id = toasts[i].id]_vars

\* C29: add, showSuccess, showError and remove never emit data-changed, so
\* the listener of the dashboard never refreshes for an entry that is
\* created with status complete, nor for a later completion of it.
C29_OnlyUpdateBroadcasts ==
  [][/\ tev'.op \in {"add", "showSuccess", "showError", "remove"} =>
          handleDataChange(tev'.dispatched) = 0
     /\ (/\ tev'.op = "update"
         /\ \A i \in 1..Len(toasts) :
              toasts[i].id = tev'.id => toasts[i].status = "complete") =>
          handleDataChange(tev'.dispatched) = 0]_vars

C29_Witness ==
  /\ tev.op = "add" /\ tev.arg = [id |-> OwnId, status |-> "complete", type |-> UPLOAD]
  /\ toasts[Len(toasts)].status = "complete" /\ toasts[Len(toasts)].type = UPLOAD
  /\ tev.dispatched = <<>>

(***************************************************************************)
(* Properties of the session cache                                         *)
(***************************************************************************)
\* C5 (as stated): set(k, v) followed by get(k) returns a value equal to v
\* and different from the absent result, for every JSON value v.
C5_RoundTripAlways ==
  [][(ev.op = "set" /\ ev'.op = "get" /\ ev'.key = ev.key)
       => (ev'.val = ev.val /\ ev'.val # JNull)]_vars

\* C5 (amended): when the storage write of set(k, v) went through, the next
\* get(k) returns a value equal to v; it differs from the absent result
\* exactly when v is not null.
C5_RoundTrip ==
  [][(ev.op = "set" /\ ev.ok /\ ev'.op = "get" /\ ev'.key = ev.key)
       => (ev'.val = ev.val /\ (ev'.val # JNull <=> ev.val # JNull))]_vars

C5_Witness == ev.op = "get" /\ ev.after = "set" /\ ev.val = JBool(FALSE)

\* C6 (as stated): a readThrough(k, producer, false) that follows a completed
\* readThrough(k, producer, false) is a cache hit returning what the first
\* call returned, whatever the producer resolved to.
C6_SecondCallHitsAlways ==
  [][(ev.op = "rtDone" /\ ~ev.force /\ ev'.op \in {"rtHit", "rtMiss"}
        /\ ev'.key = ev.key /\ ~ev'.force)
       => (ev'.op = "rtHit" /\ ev'.val = ev.val)]_vars

\* C6 (amended): the same, for a first call whose producer resolved to a
\* value other than null and whose cache write went through.
C6_SecondCallHits ==
  [][(ev.op = "rtDone" /\ ~ev.force /\ ev.ok /\ ev.val # JNull
        /\ ev'.op \in {"rtHit", "rtMiss"} /\ ev'.key = ev.key /\ ~ev'.force)
       => (ev'.op = "rtHit" /\ ev'.val = ev.val)]_vars

C6_Witness == ev.op = "rtHit" /\ ev.after = "rtDone" /\ ~ev.force /\ ev.val = JNum(0)

\* C7 (as stated): a forced readThrough always invokes the producer, returns
\* the producer's result and leaves the cache entry equal to that result.
C7_ForceRefreshStoresAlways ==
  /\ ev.op = "rtHit" => ~ev.force
  /\ (ev.op = "rtDone" /\ ev.force)
       => (ev.val = ev.prod /\ getCached(sessionStorage, ev.key) = ev.val)

\* C7 (amended): a forced readThrough always invokes the producer and
\* returns the producer's result; the cache entry equals that result when
\* the storage write went through.
C7_ForceRefreshStores ==
  /\ ev.op = "rtHit" => ~ev.force
  /\ (ev.op = "rtDone" /\ ev.force) => (ev.val = ev.prod /\ ev.set)
  /\ (ev.op = "rtDone" /\ ev.force /\ ev.ok) => getCached(sessionStorage, ev.key) = ev.val

C7_Witness ==
  /\ ev.op = "rtDone" /\ ev.force /\ ev.ok /\ ev.val = JNum(0)
  /\ StorageGetItem(sessionStorage, CACHE_PREFIX \o ev.key).text = <<"0">>

\* C8: right after clear(k), get(k) returns absent and a non-forced
\* readThrough(k) invokes the producer; clear(k) changes no other key.
C8_ClearThenMiss ==
  /\ [](/\ ev.op = "clear" => getCached(sessionStorage, ev.key) = JNull
        /\ (ev.op = "get" /\ ev.after = "clear") => ev.val = JNull
        /\ (ev.op \in {"rtHit", "rtMiss"} /\ ev.after = "clear") => ev.op = "rtMiss")
  /\ [][ev'.op = "clear"
         => /\ DOMAIN sessionStorage' = DOMAIN sessionStorage \ {CACHE_PREFIX \o ev'.key}
            /\ \A j \in DOMAIN sessionStorage' : sessionStorage'[j] = sessionStorage[j]]_vars

C8_Witness ==
  /\ ev.op = "rtMiss" /\ ev.after = "clear" /\ ~ev.force
  /\ \E k \in CacheKeys \ {ev.key} : getCached(sessionStorage, k) # JNull

\* C9: a non-forced readThrough(k) never returns a payload that the backend
\* served before a save whose clear(k) has been issued.
C9_NoStaleRead == ev.op = "rtHit" => ev.ver >= clearedVer[ev.key]

\* C10: when the producer rejects, readThrough throws the producer's error,
\* setCached is not called and the storage is left as it was.
C10_ProducerFailurePropagates ==
  /\ [](ev.settled = "reject"
          => (ev.op = "rtThrow" /\ ev.val = ev.prod /\ ~ev.set /\ ~ev.ok))
  /\ [][ev'.settled = "reject" => sessionStorage' = sessionStorage]_vars

C10_Witness ==
  /\ ev.settled = "reject" /\ ev.op = "rtThrow" /\ ev.val = JStr(<<"HTTP 500">>)
  /\ getCached(sessionStorage, ev.key) # JNull

\* the text stored for a cache key is one that JSON.parse rejects
Corrupt(store, key) ==
  LET cached == StorageGetItem(store, CACHE_PREFIX \o key) IN
  ~cached.isNull /\ cached.text # <<>> /\ ~JsonParse(cached.text).ok

\* C25: a set whose storage write fails leaves the storage as it was and
\* completes; a readThrough whose producer resolved returns the producer's
\* result whether or not its write went through; get of a key whose stored
\* text cannot be deserialized returns absent, and a non-forced readThrough
\* of such a key invokes the producer.
C25_BestEffort ==
  /\ [][(ev'.op = "set" /\ ~ev'.ok) => sessionStorage' = sessionStorage]_vars
  /\ [](ev.settled = "resolve" => (ev.op = "rtDone" /\ ev.set /\ ev.val = ev.prod))
  /\ []((ev.op = "get" /\ Corrupt(sessionStorage, ev.key)) => ev.val = JNull)
  /\ [][(ev'.op \in {"rtHit", "rtMiss"} /\ ~ev'.force /\ Corrupt(sessionStorage, ev'.key))
         => ev'.op = "rtMiss"]_vars

C25_Witness ==
  /\ ev.op = "rtDone" /\ ~ev.force /\ ev.set /\ ~ev.ok /\ ev.val = CONTENT
  /\ Corrupt(sessionStorage, ev.key)

\* C26: clearAll() removes every key under the cache prefix and leaves every
\* other key of the tab-scoped storage with its text, the token and the
\* user-info among them, so isLoggedIn() is the same before and after.
C26_ClearAllKeepsSession ==
  [][ev'.op = "clearAll" =>
       /\ \A k \in DOMAIN sessionStorage' : ~StartsWith(k, CACHE_PREFIX)
       /\ \A k \in CacheKeys : getCached(sessionStorage', k) = JNull
       /\ \A k \in DOMAIN sessionStorage :
            ~StartsWith(k, CACHE_PREFIX) =>
              (k \in DOMAIN sessionStorage' /\ sessionStorage'[k] = sessionStorage[k])
       /\ isLoggedIn(sessionStorage', localStorage') = isLoggedIn(sessionStorage, localStorage)]_vars

C26_Witness ==
  /\ ev.op = "clearAll" /\ ev.ver = 2
  /\ TOKEN_STORAGE_KEY \in DOMAIN sessionStorage /\ USER_INFO_KEY \in DOMAIN sessionStorage
  /\ localStorage = <<>>
  /\ isLoggedIn(sessionStorage, localStorage)

\* C30: every save attempt of a section ends with the section not saving;
\* when the save fails the error toast is added, the cache entry
\* knowledge_base_all is not cleared and the unsaved-changes flag is kept.
C30_SaveEnds ==
  [][(Len(pendingSaves') < Len(pendingSaves) /\ ev'.op \in {"saved", "saveFailed"}) =>
       /\ \A id \in Sections : ev'.val = JStr(<<id>>) => ~isSaving'[id]
       /\ ev'.op = "saveFailed" =>
            /\ toasts' = Append(toasts, toasts'[Len(toasts')])
            /\ toasts'[Len(toasts')].status = "error"
            /\ sessionStorage' = sessionStorage
            /\ hasChanges' = hasChanges]_vars

(***************************************************************************)
(* Properties of the API client                                            *)
(***************************************************************************)
HasToken(store) == TOKEN_STORAGE_KEY \in DOMAIN store
HasUserInfo(store) == USER_INFO_KEY \in DOMAIN store

\* C11: once handleResponse has handled an HTTP 401 response, with or
\* without a replacement-token header and wherever the token came from, no
\* token and no user-info is stored, auth:expired has been dispatched and
\* isLoggedIn() is false.
C11_TeardownOn401 ==
  aev.op = "response" /\ aev.status = 401 =>
    /\ ~HasToken(sessionStorage) /\ ~HasToken(localStorage)
    /\ ~HasUserInfo(sessionStorage)
    /\ aev.expired
    /\ ~isLoggedIn(sessionStorage, localStorage)

\* C12: logout() issues no request, and right after it isLoggedIn() is
\* false, whatever the storages held.
C12_LogoutLogsOut ==
  aev.op = "logout" => ~aev.fetched /\ ~isLoggedIn(sessionStorage, localStorage)

\* the resolved token is the demo sentinel
ResolvesDemoToken ==
  LET token == getToken(sessionStorage, localStorage) IN
  ~token.isNull /\ token.text = DEMO_TOKEN

\* C27: once logout() has run the client stays logged out, isLoggedIn() is
\* false, until a login succeeds, also when the response to a request that
\* was in flight at the logout arrives with a replacement token.
C27_StaysLoggedOut == loggedOut => ~isLoggedIn(sessionStorage, localStorage)

\* C13: while the resolved token is the demo sentinel, no call of any
\* endpoint group issues a request: the health check resolves to true and
\* every other method resolves to a payload whose status is 'success'.
C13_DemoIsolation ==
  [][ResolvesDemoToken =>
       /\ Len(requests') <= Len(requests)
       /\ aev'.op \in {"demo", "fetch"} =>
            /\ aev'.op = "demo" /\ ~aev'.fetched
            /\ aev'.outcome.kind = "resolve"
            /\ IF aev'.caller = "health" THEN aev'.outcome.val = JBool(TRUE)
               ELSE GetProp(aev'.outcome.val, <<"status">>) = SUCCESS]_vars

C13_Witness ==
  /\ aev.op = "demo"
  /\ aev.endpoint = API_V1 \o <<"/projects", "/upload-image">>
  /\ ~HasToken(sessionStorage)

\* C14: a call that does not succeed rejects with an ApiError and with
\* nothing else.
C14_OnlyTypedErrors ==
  aev.outcome.kind = "reject" => aev.outcome.error.name = "ApiError"

C16_TokenRotation ==
  [][aev'.op = "response" /\ aev'.status # 401 =>
       IF aev'.newToken # <<>>
       THEN getToken(sessionStorage', localStorage') = [isNull |-> FALSE, text |-> aev'.newToken]
       ELSE sessionStorage' = sessionStorage /\ localStorage' = localStorage]_vars

\* C17: a call whose response is not 2xx never resolves; it rejects with an
\* ApiError that has the status of the response, the parsed body as data
\* ({} when the body is not JSON) and as message the detail of the body when
\* it has one, 'HTTP <status>' otherwise.
C17_ErrorShape ==
  [][aev'.op \in {"response", "settled"} /\ aev'.caller # "health"
       /\ aev'.status > 0 /\ ~ResponseOk(aev'.status)
       /\ aev'.outcome # Pending =>
       /\ aev'.outcome.kind = "reject"
       /\ aev'.outcome.error.name = "ApiError"
       /\ aev'.outcome.error.status = aev'.status
       /\ LET parsed == JsonParse(aev'.body)
              data == IF parsed.ok THEN parsed.val ELSE JObj(<<>>)
              detail == GetProp(data, <<"detail">>)
          IN
          /\ aev'.outcome.error.data = data
          /\ aev'.outcome.error.message
               = IF detail # JUndefined THEN ToStringJs(detail) ELSE HttpMessage(aev'.status)]_vars

\* C18: when fetch fails, apiRequest rejects with an ApiError of status 0,
\* the storages are as they were and auth:expired is not dispatched.
C18_TransportFailure ==
  [][aev'.op = "settled" /\ aev'.status = 0 /\ aev'.caller # "health" =>
       /\ aev'.outcome.kind = "reject"
       /\ aev'.outcome.error.name = "ApiError"
       /\ aev'.outcome.error.status = 0
       /\ isNetworkError(aev'.outcome.error)
       /\ sessionStorage' = sessionStorage /\ localStorage' = localStorage
       /\ ~aev'.expired]_vars

C18_Witness ==
  /\ aev.op = "settled" /\ aev.status = 0 /\ aev.caller = "api"
  /\ aev.outcome.error.name = "ApiError"
  /\ HasToken(sessionStorage) /\ HasUserInfo(sessionStorage)

\* the result login got from apiRequest has status 'success' and a token
LoginSucceeded(result) ==
  GetProp(result, <<"status">>) = SUCCESS /\ Truthy(GetProp(result, <<"token">>))

\* C19: login returns the result its request resolved with; when the
\* result has status 'success' and a token, the token is in the tab-scoped
\* storage afterwards (the user-info too when the result has one),
\* isLoggedIn() is true and the resolved token is the returned one;
\* otherwise login leaves the storages as they were.
C19_LoginPersists ==
  [][aev'.op = "settled" /\ aev'.caller = "login" /\ ResponseOk(aev'.status)
       /\ JsonParse(aev'.body).ok =>
       LET result == JsonParse(aev'.body).val IN
       /\ aev'.outcome = Resolve(result)
       /\ IF LoginSucceeded(result)
          THEN /\ getToken(sessionStorage', localStorage')
                    = [isNull |-> FALSE, text |-> GetProp(result, <<"token">>)[2]]
               /\ isLoggedIn(sessionStorage', localStorage')
               /\ Truthy(GetProp(result, <<"user">>)) =>
                    /\ HasUserInfo(sessionStorage')
                    /\ sessionStorage'[USER_INFO_KEY] = JsonStringify(GetProp(result, <<"user">>))
          ELSE sessionStorage' = sessionStorage /\ localStorage' = localStorage]_vars

AtMostOne(e) ==
  /\ ~(isAuthError(e) /\ isServerError(e))
  /\ ~(isAuthError(e) /\ isNetworkError(e))
  /\ ~(isServerError(e) /\ isNetworkError(e))

\* C20: of isAuthError, isServerError and isNetworkError at most one is true
\* of an ApiError, whatever its status; 401 is an auth error, 503 a server
\* error and 0 a network error.
C20_Classification ==
  /\ \A status \in (-1)..MaxStatus : AtMostOne(ApiError(<<>>, status, JObj(<<>>)))
  /\ aev.outcome.error.name = "ApiError" =>
       LET e == aev.outcome.error IN
       /\ AtMostOne(e)
       /\ e.status = 401 => isAuthError(e)
       /\ e.status = 503 => isServerError(e)
       /\ e.status = 0 => isNetworkError(e)

C20_Witness ==
  /\ aev.outcome.error.name = "ApiError"
  /\ aev.outcome.error.status = 503
  /\ isServerError(aev.outcome.error)

====
